---- MODULE Spec2Model ----
(***************************************************************************)
(* whatsapp-archive-browse: the incremental pipeline of src/main.py        *)
(* (state load, VFS scan, history merge, message processing, output-file   *)
(* planning, media location, dependency check, HTML emission, metadata     *)
(* update) as a state machine over an input tree and an output root.       *)
(***************************************************************************)
EXTENDS Integers, Sequences, FiniteSets, TLC

VARIABLES
    inputTree,    \* the input directory: physical path -> file, or Absent
    cssMtime,     \* mtime of the installed CSS asset
    mainJson,     \* <output>/browseability-generator-chat-data.json
    newJson,      \* <output>/browseability-generator-chat-data-NEW.json
    backupJson,   \* <output>/browseability-generator-chat-data-BACKUP.json
    pc,           \* position of the driver inside main()
    runNo,        \* number of runs of main() started so far
    editsLeft,    \* input edits the environment may still make
    output_data,  \* main(): the ChatData loaded from the output root
    vfs,          \* main(): the VFS built by the scanner
    chat_data,    \* main(): the ChatData of this run
    written,      \* .html files written by generate_html in this run
    prevMain,     \* mainJson when update_metadata was entered
    prevBackup,   \* backupJson when update_metadata was entered
    lastRun,      \* how the last run ended: "none", "done" or "crashed"
    prevRun,      \* what the last completed run saw and wrote, or None
    open_streams  \* ids of the handles whose stream from VFS.open_file this
                  \* run holds without having called close() on it

vars == <<inputTree, cssMtime, mainJson, newJson, backupJson, pc, runNo,
          editsLeft, output_data, vfs, chat_data, written,
          prevMain, prevBackup, lastRun, prevRun, open_streams>>

----------------------------------------------------------------------------
(* Bounds of the model *)

MaxRuns == 3
MaxEdits == 1

----------------------------------------------------------------------------
(* Generic helpers *)

Absent == [absent |-> TRUE]
None == [none |-> TRUE]
EmptyDict == [k \in {} |-> None]

Range(s) == {s[i] : i \in 1..Len(s)}

\* dict[key] = value
Put(d, k, v) == (k :> v) @@ d

\* dict.get(key), None when missing
Get(d, k) == IF k \in DOMAIN d THEN d[k] ELSE None

\* dict.update(other)
Update(d, other) == other @@ d

----------------------------------------------------------------------------
(* chat_data.py: identifiers, handles, messages *)

\* A path is <<directory, basename>>; "." is the root.
Basename(path) == path[2]
Dirname(path) == path[1]

\* sha1 of "mtime:size:path" is taken to be collision free: the id is the
\* triple itself; EmptyID stands for ChatFileID(value="").
\* str(path) of a relative path
PathString(path) == path[1] \o "/" \o path[2]

\* str(mtime) of a whole-numbered float
FloatString(mtime) == ToString(mtime) \o ".0"

\* a key that leaves the size out
ChatFileID_key_without_size(mtime, size, path) ==
    FloatString(mtime) \o ":" \o PathString(path)

\* line 18: the string that is hashed, f"{mtime}:{size}:{path}"
ChatFileID_key(mtime, size, path) ==
    FloatString(mtime) \o ":" \o ToString(size) \o ":" \o PathString(path)

ChatFileID_create(mtime, size, path) == [mtime |-> mtime, size |-> size, path |-> path]
EmptyID == [value |-> ""]

ChatFile(path, size, mtime, parent_zip, exists) ==
    [path |-> path, size |-> size, modification_timestamp |-> mtime,
     parent_zip |-> parent_zip, exists |-> exists]

id(f) == ChatFileID_create(f.modification_timestamp, f.size, f.path)

Message(timestamp, sender, content, year, input_file_id, media_name) ==
    [timestamp |-> timestamp, sender |-> sender, content |-> content,
     year |-> year, input_file_id |-> input_file_id, media_name |-> media_name]

\* media_name is "" when the message references no media (falsy, like None)
NoMedia == ""

OutputFile(year) ==
    [year |-> year, generate |-> FALSE, media_dependencies |-> EmptyDict,
     chat_dependencies |-> {}, css_dependency |-> None]

Chat(chat_name) ==
    [chat_name |-> chat_name, messages |-> <<>>, output_files |-> EmptyDict]

DefaultTimestamp == <<"1970-01-01T00:00:00">>

ChatData ==
    [chats |-> EmptyDict, timestamp |-> DefaultTimestamp, input_files |-> EmptyDict]

\* to_json keeps chats and input_files and drops the run timestamp; keys are
\* sorted and chat_dependencies is written as a sorted list, so equal data
\* gives equal bytes.
to_json(d) == [chats |-> d.chats, input_files |-> d.input_files]

\* lines 220-237: a message of the older format names its transcript by path
\* in "input_file"; the handle made for it has exists = False, so the message
\* gets input_file_id None
decode_message(msg) ==
    IF "input_file" \in DOMAIN msg
    THEN LET meta == ChatFile(msg.input_file, 0, 0, None, FALSE)
         IN Message(msg.timestamp, msg.sender, msg.content, msg.year,
                    IF meta.exists THEN id(meta) ELSE None, msg.media_name)
    ELSE msg

decode_message_list(messages) ==
    [i \in 1..Len(messages) |-> decode_message(messages[i])]

from_json(j) ==
    [chats |-> [n \in DOMAIN j.chats |->
                  [j.chats[n] EXCEPT !.messages = decode_message_list(@)]],
     timestamp |-> DefaultTimestamp, input_files |-> j.input_files]

----------------------------------------------------------------------------
(* vfs.py *)

\* files_by_path is a dict: path_order keeps the insertion order of its keys.
EmptyVFS ==
    [files_by_id |-> EmptyDict, files_by_path |-> EmptyDict,
     path_order |-> <<>>, files_by_name |-> EmptyDict]

add_file(v, f) ==
    [files_by_id |-> Put(v.files_by_id, id(f), f),
     files_by_path |-> Put(v.files_by_path, f.path, f),
     path_order |-> IF f.path \in DOMAIN v.files_by_path
                    THEN v.path_order ELSE Append(v.path_order, f.path),
     files_by_name |->
        Put(v.files_by_name, Basename(f.path),
            (IF Basename(f.path) \in DOMAIN v.files_by_name
             THEN v.files_by_name[Basename(f.path)] ELSE {}) \cup {f})]

get_by_id(v, file_id) == Get(v.files_by_id, file_id)

get_by_path(v, path) == Get(v.files_by_path, path)

find_by_name(v, filename) ==
    IF filename \in DOMAIN v.files_by_name THEN v.files_by_name[filename] ELSE {}

exists(v, file_id) ==
    get_by_id(v, file_id) # None /\ get_by_id(v, file_id).exists

\* a function without the key k
Without(d, k) == [x \in (DOMAIN d) \ {k} |-> d[x]]

\* lines 76-88; ChatFileSet has no __len__, so an emptied set keeps its key
remove_file(v, chat_file) ==
    [files_by_id |-> Without(v.files_by_id, id(chat_file)),
     files_by_path |-> Without(v.files_by_path, chat_file.path),
     path_order |-> SelectSeq(v.path_order, LAMBDA q : q # chat_file.path),
     files_by_name |->
        IF Basename(chat_file.path) \in DOMAIN v.files_by_name
        THEN Put(v.files_by_name, Basename(chat_file.path),
                 v.files_by_name[Basename(chat_file.path)] \ {chat_file})
        ELSE v.files_by_name]

\* lines 90-113
mark_nonexistent(v, file_id) ==
    LET old_file == get_by_id(v, file_id)
        new_file == ChatFile(old_file.path, old_file.size,
                             old_file.modification_timestamp, old_file.parent_zip, FALSE)
        basename == Basename(old_file.path)
    IN IF old_file = None THEN v
       ELSE [files_by_id |-> Put(v.files_by_id, file_id, new_file),
             files_by_path |-> Put(v.files_by_path, new_file.path, new_file),
             path_order |-> IF new_file.path \in DOMAIN v.files_by_path
                            THEN v.path_order ELSE Append(v.path_order, new_file.path),
             files_by_name |->
                IF basename \in DOMAIN v.files_by_name
                THEN Put(v.files_by_name, basename,
                         {IF id(f) = file_id THEN new_file ELSE f :
                             f \in v.files_by_name[basename]})
                ELSE v.files_by_name]

RECURSIVE add_files(_, _)
add_files(v, fs) ==
    IF fs = <<>> THEN v ELSE add_files(add_file(v, Head(fs)), Tail(fs))

----------------------------------------------------------------------------
(* The input universe: transcript lines, transcripts, physical files *)

\* A transcript line is a message line (the fields the line regex captures,
\* with the media reference the media regex finds in its content) or a
\* continuation line.
MsgLine(timestamp, year, sender, content, media) ==
    [kind |-> "msg", timestamp |-> timestamp, year |-> year, sender |-> sender,
     content |-> content, media |-> media]

ContLine(text) == [kind |-> "cont", text |-> text]

LineR == MsgLine("2022", 2022, "R", "hi", NoMedia)
LineS == MsgLine("2022", 2022, "S", "hi", NoMedia)
LineP == MsgLine("2022", 2022, "u", "", "img")
LineQ == MsgLine("2023", 2023, "u|v", "w", NoMedia)
LineQ2 == MsgLine("2023|u", 2023, "v", "w", NoMedia)
LineC == ContLine("+")
LineN == MsgLine("2022", 2022, "n", "hi", NoMedia)

T1 == <<LineR, LineP>>
T2 == <<LineR, LineC, LineP, LineQ>>
T3 == <<LineR, LineP, LineQ2>>
T4 == <<LineS, LineP>>
T5 == <<LineR, LineP, LineN>>

\* A physical file: a transcript, a media file or a ZIP with its members.
PlainFile(mtime, lines) ==
    [modification_timestamp |-> mtime, size |-> Len(lines), lines |-> lines,
     members |-> <<>>]

ZipMember(path, mtime, lines) ==
    [path |-> path, modification_timestamp |-> mtime, size |-> Len(lines),
     lines |-> lines]

ZipFile(mtime, members) ==
    [modification_timestamp |-> mtime, size |-> Len(members), lines |-> <<>>,
     members |-> members]

\* os.walk order: the files of the root, then of each directory.
WalkOrder ==
    << <<".", "x.zip">>, <<".", "y.zip">>, <<"a", "_chat.txt">>,
       <<"b", "_chat.txt">>, <<"b", "img">> >>

PhysPaths == Range(WalkOrder)

\* The files that may be found at each path of the input tree.
Candidates(path) ==
    CASE path = <<".", "x.zip">> ->
            {ZipFile(1, <<ZipMember(<<".", "_chat.txt">>, 1, T5),
                          ZipMember(<<"m", "img">>, 1, <<>>)>>)}
      [] path = <<".", "y.zip">> ->
            {ZipFile(1, <<ZipMember(<<".", "_chat.txt">>, 2, T2)>>)}
      [] path = <<"a", "_chat.txt">> ->
            {PlainFile(1, T1), PlainFile(2, T2)}
      [] path = <<"b", "_chat.txt">> ->
            {PlainFile(2, T3), PlainFile(1, T4)}
      [] path = <<"b", "img">> ->
            {PlainFile(1, <<>>)}

Options(path) == Candidates(path) \cup {Absent}

RECURSIVE TreesOver(_)
TreesOver(paths) ==
    IF paths = <<>> THEN {EmptyDict}
    ELSE {Put(t[1], Head(paths), t[2]) :
            t \in TreesOver(Tail(paths)) \X Options(Head(paths))}

Trees == TreesOver(WalkOrder)

----------------------------------------------------------------------------
(* zip_utils.py, vfs_scanner.py *)

EndsWithZip(name) == name \in {"x.zip", "y.zip"}

EndsWithChatTxt(path) == Basename(path) = "_chat.txt"

is_whatsapp_archive(file) ==
    \E i \in 1..Len(file.members) : EndsWithChatTxt(file.members[i].path)

RECURSIVE zip_handles(_, _)
zip_handles(members, zip_id) ==
    IF members = <<>> THEN <<>>
    ELSE <<ChatFile(Head(members).path, Head(members).size,
                    Head(members).modification_timestamp, zip_id, TRUE)>>
         \o zip_handles(Tail(members), zip_id)

\* The handles one directory entry contributes, in the order they are added.
scan_file(path, file) ==
    IF EndsWithZip(Basename(path))
    THEN IF is_whatsapp_archive(file)
         THEN <<ChatFile(path, file.size, file.modification_timestamp, None, TRUE)>>
              \o zip_handles(file.members,
                             ChatFileID_create(file.modification_timestamp, file.size, path))
         ELSE <<>>
    ELSE <<ChatFile(path, file.size, file.modification_timestamp, None, TRUE)>>

RECURSIVE scan_walk(_, _, _)
scan_walk(v, tree, paths) ==
    IF paths = <<>> THEN v
    ELSE scan_walk(
            IF tree[Head(paths)] = Absent THEN v
            ELSE add_files(v, scan_file(Head(paths), tree[Head(paths)])),
            tree, Tail(paths))

\* A .zip file that is not a ZIP archive (zipfile.BadZipFile), and a file whose
\* stat or open raises OSError (no permission, vanished since it was listed).
Malformed == [malformed |-> TRUE]

Unreadable == [unreadable |-> TRUE]

Raised == [raised |-> TRUE]

\* The first pass with its exceptions: is_whatsapp_archive catches BadZipFile
\* only; os.path.getsize, os.path.getmtime and zipfile.ZipFile are called
\* outside any try, so an OSError leaves scan_directory_to_vfs.
RECURSIVE scan_walk_raising(_, _, _)
scan_walk_raising(v, tree, paths) ==
    IF paths = <<>> THEN v
    ELSE IF tree[Head(paths)] = Unreadable THEN Raised
    ELSE scan_walk_raising(
            IF tree[Head(paths)] \in {Absent, Malformed} THEN v
            ELSE add_files(v, scan_file(Head(paths), tree[Head(paths)])),
            tree, Tail(paths))

\* main() passes no preserve_vfs: only the first pass runs.
scan_directory_to_vfs(tree) == scan_walk(EmptyVFS, tree, WalkOrder)

----------------------------------------------------------------------------
(* chat_vfs_merge.py *)

\* a merge that keeps the recorded exists flag
RECURSIVE merge_files_keeping_exists(_, _, _)
merge_files_keeping_exists(v, input_files, ids) ==
    IF ids = {} THEN v
    ELSE LET file_id == CHOOSE i \in ids : TRUE
         IN merge_files_keeping_exists(
                IF get_by_id(v, file_id) = None
                THEN add_file(v, input_files[file_id])
                ELSE v,
                input_files, ids \ {file_id})

RECURSIVE merge_files(_, _, _)
merge_files(v, input_files, ids) ==
    IF ids = {} THEN v
    ELSE LET file_id == CHOOSE i \in ids : TRUE
             chat_file == input_files[file_id]
         IN merge_files(
                IF get_by_id(v, file_id) = None
                THEN add_file(v, ChatFile(chat_file.path, chat_file.size,
                                          chat_file.modification_timestamp,
                                          chat_file.parent_zip, FALSE))
                ELSE v,
                input_files, ids \ {file_id})

merge_chat_files_into_vfs(data, v) ==
    merge_files(v, data.input_files, DOMAIN data.input_files)

----------------------------------------------------------------------------
(* VFS.open_file, parser.py *)

\* The lines open_file yields for a handle, None when the open fails: a plain
\* file is read at its path under the input root, a ZIP member through the
\* archive its parent_zip names.
open_file(tree, v, f) ==
    IF ~f.exists THEN None
    ELSE IF f.parent_zip = None
    THEN IF f.path \in PhysPaths /\ tree[f.path] # Absent
         THEN [lines |-> tree[f.path].lines] ELSE None
    ELSE LET zip == get_by_id(v, f.parent_zip)
         IN IF zip = None THEN None
            ELSE IF zip.path \notin PhysPaths THEN None
            ELSE IF tree[zip.path] = Absent THEN None
            ELSE LET ms == tree[zip.path].members
                     hit == {i \in 1..Len(ms) : ms[i].path = f.path}
                 IN IF hit = {} THEN None
                    ELSE [lines |-> ms[CHOOSE i \in hit : TRUE].lines]

parse_chat_line(line) ==
    IF line.kind = "msg"
    THEN [timestamp |-> line.timestamp, year |-> line.year, sender |-> line.sender,
          content |-> line.content, media |-> line.media]
    ELSE None

raw_chat_line_to_message(raw_line, input_file) ==
    Message(raw_line.timestamp, raw_line.sender, raw_line.content, raw_line.year,
            id(input_file), raw_line.media)

RECURSIVE parse_rest(_, _, _, _)
parse_rest(lines, current_raw_line, messages, input_file) ==
    IF lines = <<>>
    THEN Append(messages, raw_chat_line_to_message(current_raw_line, input_file))
    ELSE LET next_raw_line == parse_chat_line(Head(lines))
         IN IF next_raw_line # None
            THEN parse_rest(Tail(lines), next_raw_line,
                            Append(messages,
                                   raw_chat_line_to_message(current_raw_line, input_file)),
                            input_file)
            ELSE parse_rest(Tail(lines),
                            [current_raw_line EXCEPT !.content = @ \o Head(lines).text],
                            messages, input_file)

parse_chat_lines(lines, input_file) ==
    IF Len(lines) = 0 THEN None
    ELSE IF parse_chat_line(lines[1]) = None THEN None
    ELSE [chat_name |-> parse_chat_line(lines[1]).sender,
          messages |-> parse_rest(Tail(lines), parse_chat_line(lines[1]), <<>>, input_file),
          output_files |-> EmptyDict]

parse_chat_file(tree, v, chat_file) ==
    LET file_obj == open_file(tree, v, chat_file)
    IN IF file_obj = None THEN None ELSE parse_chat_lines(file_obj.lines, chat_file)

----------------------------------------------------------------------------
(* message_processor.py *)

DummyFile == ChatFile(<<"", "">>, 0, 0, None, FALSE)

\* line 41: the message's file is live in the VFS, or unknown to it
seeds_history(v, msg) ==
    /\ msg.input_file_id # EmptyID
    /\ (exists(v, msg.input_file_id) \/ get_by_id(v, msg.input_file_id) = None)

\* lines 38-49: one (mtime, file, old_chat) entry per old chat, for the first
\* message that seeds it
history_entries(v, old_chat) ==
    LET hits == {i \in 1..Len(old_chat.messages) : seeds_history(v, old_chat.messages[i])}
    IN IF hits = {} THEN <<>>
       ELSE LET first == CHOOSE i \in hits : \A j \in hits : i <= j
                file_id == old_chat.messages[first].input_file_id
                file == IF get_by_id(v, file_id) # None
                        THEN get_by_id(v, file_id) ELSE DummyFile
            IN << [mtime |-> file.modification_timestamp, file |-> file,
                   chat |-> old_chat] >>

history_files(v, old_chat_data) ==
    LET all == [n \in DOMAIN old_chat_data.chats |->
                    history_entries(v, old_chat_data.chats[n])]
    IN [n \in {m \in DOMAIN all : all[m] # <<>>} |-> all[n]]

\* line 56
already_from_old_data(chat_files_by_name, file) ==
    \E n \in DOMAIN chat_files_by_name :
        \E i \in 1..Len(chat_files_by_name[n]) :
            id(chat_files_by_name[n][i].file) = id(file)

\* line 53
is_chat_file(file) == Basename(file.path) = "_chat.txt" /\ file.exists

\* lines 52-68
RECURSIVE parse_new_files(_, _, _, _)
parse_new_files(tree, v, chat_files_by_name, paths) ==
    IF paths = <<>> THEN chat_files_by_name
    ELSE LET file == v.files_by_path[Head(paths)]
             chat == parse_chat_file(tree, v, file)
         IN parse_new_files(tree, v,
                IF is_chat_file(file)
                   /\ ~already_from_old_data(chat_files_by_name, file)
                   /\ chat # None
                THEN Put(chat_files_by_name, chat.chat_name,
                         Append(IF chat.chat_name \in DOMAIN chat_files_by_name
                                THEN chat_files_by_name[chat.chat_name] ELSE <<>>,
                                [mtime |-> file.modification_timestamp, file |-> file,
                                 chat |-> chat]))
                ELSE chat_files_by_name,
                Tail(paths))

\* list.sort(key=mtime): stable
RECURSIVE insert_sorted(_, _)
insert_sorted(sorted, t) ==
    IF sorted = <<>> THEN <<t>>
    ELSE IF sorted[Len(sorted)].mtime <= t.mtime THEN Append(sorted, t)
    ELSE Append(insert_sorted(SubSeq(sorted, 1, Len(sorted) - 1), t), sorted[Len(sorted)])

RECURSIVE sort_by_mtime(_)
sort_by_mtime(tuples) ==
    IF tuples = <<>> THEN <<>>
    ELSE insert_sorted(sort_by_mtime(SubSeq(tuples, 1, Len(tuples) - 1)),
                       tuples[Len(tuples)])

\* a key that also tells the source files apart
msg_hash_per_file(msg) ==
    <<msg.timestamp \o "|" \o msg.sender \o "|" \o msg.content, msg.input_file_id>>

\* line 90
msg_hash(msg) == msg.timestamp \o "|" \o msg.sender \o "|" \o msg.content

\* lines 89-96: st = [messages, seen]
RECURSIVE add_messages(_, _)
add_messages(st, msgs) ==
    IF msgs = <<>> THEN st
    ELSE add_messages(
            IF msg_hash(Head(msgs)) \in st.seen THEN st
            ELSE [messages |-> Append(st.messages, Head(msgs)),
                  seen |-> st.seen \cup {msg_hash(Head(msgs))}],
            Tail(msgs))

RECURSIVE combine_files(_, _)
combine_files(st, tuples) ==
    IF tuples = <<>> THEN st
    ELSE combine_files(add_messages(st, Head(tuples).chat.messages), Tail(tuples))

\* lines 71-96 for one chat
combined_chat(chat_name, tuples) ==
    [chat_name |-> chat_name,
     messages |-> combine_files([messages |-> <<>>, seen |-> {}],
                                sort_by_mtime(tuples)).messages,
     output_files |-> EmptyDict]

process_messages(tree, v, old_chat_data) ==
    LET chat_files_by_name ==
            parse_new_files(tree, v, history_files(v, old_chat_data), v.path_order)
        files == UNION {{t.file : t \in Range(chat_files_by_name[n])} :
                            n \in DOMAIN chat_files_by_name}
    IN [chats |-> [n \in DOMAIN chat_files_by_name |->
                        combined_chat(n, chat_files_by_name[n])],
        timestamp |-> DefaultTimestamp,
        input_files |-> [i \in {id(f) : f \in files} |->
                            CHOOSE f \in files : id(f) = i]]

\* message_processor.py lines 52-61 with parser.py lines 186-198: the handles
\* whose stream parse_chat_file obtains; the stream is read and decoded, and
\* neither the try body nor the except branch calls close() on it
parse_chat_file_streams(tree, v, old_chat_data) ==
    {id(f) : f \in {g \in {v.files_by_path[p] : p \in DOMAIN v.files_by_path} :
                        /\ is_chat_file(g)
                        /\ ~already_from_old_data(history_files(v, old_chat_data), g)
                        /\ open_file(tree, v, g) # None}}

----------------------------------------------------------------------------
(* output_file_generator.py *)

CssSize == 1

\* lines 19-24: the CSS asset as it is installed beside the module
planner_css_file(css_mtime) ==
    ChatFile(<<".", "browseability-generator.css">>, CssSize, css_mtime, None, TRUE)

\* a planner that gives every year all the files of the chat
planned_chat_all_files(chat, css_id) ==
    LET message_years == {chat.messages[i].year : i \in 1..Len(chat.messages)}
        deps == {chat.messages[i].input_file_id : i \in 1..Len(chat.messages)}
    IN [chat EXCEPT !.output_files =
            [year \in message_years |->
                [OutputFile(year) EXCEPT !.chat_dependencies = deps,
                                         !.css_dependency = css_id]]]

\* lines 29-48 for one chat
planned_chat(chat, css_id) ==
    LET message_years == {chat.messages[i].year : i \in 1..Len(chat.messages)}
        deps(year) == {chat.messages[i].input_file_id :
                          i \in {j \in 1..Len(chat.messages) :
                                    /\ chat.messages[j].year = year
                                    /\ chat.messages[j].input_file_id # EmptyID}}
    IN [chat EXCEPT !.output_files =
            [year \in message_years |->
                [OutputFile(year) EXCEPT !.chat_dependencies = deps(year),
                                         !.css_dependency = css_id]]]

generate_output_files(data, css_mtime) ==
    LET css_file == planner_css_file(css_mtime)
    IN [data EXCEPT
            !.input_files = Put(@, id(css_file), css_file),
            !.chats = [n \in DOMAIN @ |-> planned_chat(@[n], id(css_file))]]

----------------------------------------------------------------------------
(* media_locator.py *)

\* str(Path(dirname(chat file)) / media_name)
media_path(chat_file, media_name) == <<Dirname(chat_file.path), media_name>>

\* first(name) is the handle next(iter(find_by_name(name))) yields in this
\* process: the sets hash by id string, so any member may come first.
find_media_file(v, media_name, chat_file_path, first) ==
    LET chat_file == get_by_path(v, chat_file_path)
    IN IF chat_file = None
       THEN IF find_by_name(v, media_name) # {} THEN first[media_name] ELSE None
       ELSE IF get_by_path(v, media_path(chat_file, media_name)) # None
       THEN get_by_path(v, media_path(chat_file, media_name))
       ELSE IF find_by_name(v, media_name) # {} THEN first[media_name]
       ELSE None

\* lines 52-68: st = [media_by_year, input_files]
RECURSIVE locate_messages(_, _, _, _)
locate_messages(st, msgs, v, first) ==
    IF msgs = <<>> THEN st
    ELSE LET msg == Head(msgs)
             year == msg.year
             by_year == IF year \in DOMAIN st.media_by_year
                        THEN st.media_by_year[year] ELSE EmptyDict
             chat_file == get_by_id(v, msg.input_file_id)
             media_file == find_media_file(v, msg.media_name, chat_file.path, first)
         IN locate_messages(
                IF msg.media_name = NoMedia THEN st
                ELSE IF msg.media_name \in DOMAIN by_year \/ chat_file = None
                THEN [st EXCEPT !.media_by_year = Put(@, year, by_year)]
                ELSE [media_by_year |->
                        Put(st.media_by_year, year,
                            Put(by_year, msg.media_name,
                                IF media_file # None THEN id(media_file) ELSE None)),
                      input_files |->
                        IF media_file # None
                        THEN Put(st.input_files, id(media_file), media_file)
                        ELSE st.input_files],
                Tail(msgs), v, first)

\* lines 70-73
with_media(chat, media_by_year) ==
    [chat EXCEPT !.output_files =
        [year \in DOMAIN @ |->
            IF year \in DOMAIN media_by_year
            THEN [@[year] EXCEPT !.media_dependencies = Update(@, media_by_year[year])]
            ELSE @[year]]]

RECURSIVE locate_chats(_, _, _, _)
locate_chats(data, names, v, first) ==
    IF names = {} THEN data
    ELSE LET n == CHOOSE m \in names : TRUE
             st == locate_messages([media_by_year |-> EmptyDict,
                                    input_files |-> data.input_files],
                                   data.chats[n].messages, v, first)
         IN locate_chats(
                [data EXCEPT !.input_files = st.input_files,
                             !.chats[n] = with_media(@, st.media_by_year)],
                names \ {n}, v, first)

process_media_dependencies(data, v, first) ==
    locate_chats(data, DOMAIN data.chats, v, first)

\* The media names the messages of the run reference.
media_names(data) ==
    UNION {{data.chats[n].messages[i].media_name : i \in 1..Len(data.chats[n].messages)} :
              n \in DOMAIN data.chats} \ {NoMedia}

\* The iteration orders a process may have: for every referenced basename the
\* VFS knows, the member of its set that comes first.
IterationOrders(data, v) ==
    LET names == media_names(data) \cap DOMAIN v.files_by_name
    IN {first \in [names -> UNION {v.files_by_name[n] : n \in names}] :
            \A n \in names : first[n] \in v.files_by_name[n]}

----------------------------------------------------------------------------
(* output_dependency_checker.py *)

\* a comparison that leaves the media mapping out
dependencies_changed_without_media(new_file, old_file) ==
    \/ new_file.css_dependency # old_file.css_dependency
    \/ new_file.chat_dependencies # old_file.chat_dependencies

\* lines 33-36
dependencies_changed(new_file, old_file) ==
    \/ new_file.css_dependency # old_file.css_dependency
    \/ new_file.media_dependencies # old_file.media_dependencies
    \/ new_file.chat_dependencies # old_file.chat_dependencies

\* lines 22-39 for one output file
checked_file(new_file, old_file) ==
    IF old_file = None THEN [new_file EXCEPT !.generate = TRUE]
    ELSE IF dependencies_changed(new_file, old_file)
    THEN [new_file EXCEPT !.generate = TRUE]
    ELSE new_file

old_output_file(old_data, chat_name, year) ==
    IF chat_name \in DOMAIN old_data.chats
    THEN Get(old_data.chats[chat_name].output_files, year)
    ELSE None

check_output_dependencies(new_data, old_data) ==
    [new_data EXCEPT !.chats =
        [n \in DOMAIN @ |->
            [@[n] EXCEPT !.output_files =
                [year \in DOMAIN @ |->
                    checked_file(@[year], old_output_file(old_data, n, year))]]]]

----------------------------------------------------------------------------
(* css.py, html_generator.py *)

FIXED_TIMESTAMP == 1620000000

emitter_css_file ==
    ChatFile(<<"src/resources", "browseability-generator.css">>, CssSize,
             FIXED_TIMESTAMP, None, TRUE)

YearPage(chat_name, year) == <<"year", chat_name, year>>
ChatIndex(chat_name) == <<"chat_index", chat_name>>
MainIndex == <<"main_index">>

\* a generator that rewrites every year page
emits_every_year(output_file) == TRUE

\* line 237: a year page is written when its OutputFile asks for it
emits_year(output_file) == output_file.generate

\* lines 234-257
year_pages(data) ==
    {YearPage(n, y) : <<n, y>> \in
        {<<n, y>> \in (DOMAIN data.chats) \X UNION {DOMAIN data.chats[m].output_files :
                                                       m \in DOMAIN data.chats} :
            /\ y \in DOMAIN data.chats[n].output_files
            /\ emits_year(data.chats[n].output_files[y])}}

\* lines 259-264
chat_indexes(data) == {ChatIndex(n) : n \in DOMAIN data.chats}

\* lines 237-249 with copy_media_file, lines 52-70: the handles whose stream
\* copy_media_file obtains; only the destination is opened in a with block,
\* the source is passed to copyfileobj and never closed
copy_media_file_streams(tree, v, data) ==
    {media_file_id \in DOMAIN data.input_files :
        /\ \E n \in DOMAIN data.chats :
              \E y \in DOMAIN data.chats[n].output_files :
                LET output_file == data.chats[n].output_files[y]
                IN /\ emits_year(output_file)
                   /\ \E m \in DOMAIN output_file.media_dependencies :
                         output_file.media_dependencies[m] = media_file_id
        /\ data.input_files[media_file_id].exists
        /\ open_file(tree, v, data.input_files[media_file_id]) # None}

\* the .html files generate_html writes
generate_html_writes(data) == year_pages(data) \cup chat_indexes(data) \cup {MainIndex}

----------------------------------------------------------------------------
(* The environment: the input tree and the CSS asset change between runs *)

Partial == [partial |-> TRUE]

\* Before the first run: no output directory, nothing in memory.
NoOutputYet ==
    /\ cssMtime = 1
    /\ mainJson = Absent
    /\ newJson = Absent
    /\ backupJson = Absent
    /\ pc = "idle"
    /\ runNo = 0
    /\ editsLeft = MaxEdits
    /\ output_data = ChatData
    /\ vfs = EmptyVFS
    /\ chat_data = ChatData
    /\ written = {}
    /\ prevMain = Absent
    /\ prevBackup = Absent
    /\ lastRun = "none"
    /\ prevRun = None
    /\ open_streams = {}

Init ==
    /\ inputTree \in Trees
    /\ NoOutputYet

\* Nothing has changed since the last completed run.
Untouched ==
    /\ prevRun # None
    /\ inputTree = prevRun.tree
    /\ cssMtime = prevRun.css

\* A file of the input tree is added, removed or replaced in place.
EditInput ==
    /\ pc = "idle"
    /\ runNo < MaxRuns
    /\ editsLeft > 0
    /\ Untouched
    /\ \E p \in PhysPaths : \E f \in Options(p) :
        /\ f # inputTree[p]
        /\ inputTree' = [inputTree EXCEPT ![p] = f]
    /\ editsLeft' = editsLeft - 1
    /\ UNCHANGED <<cssMtime, mainJson, newJson, backupJson, pc, runNo, output_data,
                   vfs, chat_data, written, prevMain, prevBackup, lastRun, prevRun,
                   open_streams>>

\* The program is reinstalled: the CSS asset gets a new mtime.
TouchCss ==
    /\ pc = "idle"
    /\ runNo < MaxRuns
    /\ editsLeft > 0
    /\ Untouched
    /\ cssMtime' = cssMtime + 1
    /\ editsLeft' = editsLeft - 1
    /\ UNCHANGED <<inputTree, mainJson, newJson, backupJson, pc, runNo, output_data,
                   vfs, chat_data, written, prevMain, prevBackup, lastRun, prevRun,
                   open_streams>>

----------------------------------------------------------------------------
(* output_checker.py, main.py: the steps of one run *)

\* a chat-data.json whose text json.loads or from_json rejects
Corrupt == [corrupt |-> TRUE]

\* a loader that falls back to chat-data-BACKUP.json when chat-data.json is missing
check_output_directory_or_backup(main_json) ==
    IF main_json = Corrupt THEN None
    ELSE IF main_json # Absent THEN from_json(main_json)
    ELSE IF backupJson # Absent THEN from_json(backupJson) ELSE None

\* lines 18-27: a missing file and a file that does not parse both give None
check_output_directory(main_json) ==
    IF main_json = Absent \/ main_json = Corrupt THEN None ELSE from_json(main_json)

RunTimestamp(n) == <<"run", n>>

\* main.py lines 97-102
StartRun ==
    /\ pc = "idle"
    /\ runNo < MaxRuns
    /\ runNo' = runNo + 1
    /\ output_data' = IF check_output_directory(mainJson) # None
                      THEN check_output_directory(mainJson) ELSE ChatData
    /\ vfs' = EmptyVFS
    /\ chat_data' = ChatData
    /\ written' = {}
    /\ open_streams' = {}
    /\ pc' = "loaded"
    /\ UNCHANGED <<inputTree, cssMtime, mainJson, newJson, backupJson, editsLeft,
                   prevMain, prevBackup, lastRun, prevRun>>

\* main.py lines 104-106
Scan ==
    /\ pc = "loaded"
    /\ vfs' = scan_directory_to_vfs(inputTree)
    /\ pc' = "scanned"
    /\ UNCHANGED <<inputTree, cssMtime, mainJson, newJson, backupJson, runNo, editsLeft,
                   output_data, chat_data, written, prevMain, prevBackup, lastRun,
                   prevRun,
                   open_streams>>

\* main.py lines 108-110
MergeHistory ==
    /\ pc = "scanned"
    /\ vfs' = merge_chat_files_into_vfs(output_data, vfs)
    /\ pc' = "merged"
    /\ UNCHANGED <<inputTree, cssMtime, mainJson, newJson, backupJson, runNo, editsLeft,
                   output_data, chat_data, written, prevMain, prevBackup, lastRun,
                   prevRun,
                   open_streams>>

\* main.py lines 112-117
ProcessMessages ==
    /\ pc = "merged"
    /\ chat_data' = [process_messages(inputTree, vfs, output_data)
                        EXCEPT !.timestamp = RunTimestamp(runNo)]
    /\ open_streams' = open_streams
                        \cup parse_chat_file_streams(inputTree, vfs, output_data)
    /\ pc' = "processed"
    /\ UNCHANGED <<inputTree, cssMtime, mainJson, newJson, backupJson, runNo, editsLeft,
                   output_data, vfs, written, prevMain, prevBackup, lastRun, prevRun>>

\* main.py lines 119-121
GenerateOutputFiles ==
    /\ pc = "processed"
    /\ chat_data' = generate_output_files(chat_data, cssMtime)
    /\ pc' = "planned"
    /\ UNCHANGED <<inputTree, cssMtime, mainJson, newJson, backupJson, runNo, editsLeft,
                   output_data, vfs, written, prevMain, prevBackup, lastRun, prevRun,
                   open_streams>>

\* main.py lines 123-125
ProcessMediaDependencies ==
    /\ pc = "planned"
    /\ \E first \in IterationOrders(chat_data, vfs) :
        chat_data' = process_media_dependencies(chat_data, vfs, first)
    /\ pc' = "located"
    /\ UNCHANGED <<inputTree, cssMtime, mainJson, newJson, backupJson, runNo, editsLeft,
                   output_data, vfs, written, prevMain, prevBackup, lastRun, prevRun,
                   open_streams>>

\* main.py lines 127-129
CheckOutputDependencies ==
    /\ pc = "located"
    /\ chat_data' = check_output_dependencies(chat_data, output_data)
    /\ pc' = "checked"
    /\ UNCHANGED <<inputTree, cssMtime, mainJson, newJson, backupJson, runNo, editsLeft,
                   output_data, vfs, written, prevMain, prevBackup, lastRun, prevRun,
                   open_streams>>

\* main.py lines 131-133; html_generator.py lines 217-220 add the CSS handle
GenerateHtml ==
    /\ pc = "checked"
    /\ written' = generate_html_writes(chat_data)
    /\ chat_data' = [chat_data EXCEPT
                        !.input_files = Put(@, id(emitter_css_file), emitter_css_file)]
    /\ vfs' = add_file(vfs, emitter_css_file)
    /\ open_streams' = open_streams
                        \cup copy_media_file_streams(inputTree, vfs, chat_data)
    /\ pc' = "emitted"
    /\ UNCHANGED <<inputTree, cssMtime, mainJson, newJson, backupJson, runNo, editsLeft,
                   output_data, prevMain, prevBackup, lastRun, prevRun>>

----------------------------------------------------------------------------
(* metadata_updater.py: one action per file-system step *)

\* lines 29-31
WriteNewJson ==
    /\ pc = "emitted"
    /\ newJson' = to_json(chat_data)
    /\ prevMain' = mainJson
    /\ prevBackup' = backupJson
    /\ pc' = "new_written"
    /\ UNCHANGED <<inputTree, cssMtime, mainJson, backupJson, runNo, editsLeft,
                   output_data, vfs, chat_data, written, lastRun, prevRun,
                   open_streams>>

\* lines 34-36
RemoveBackup ==
    /\ pc = "new_written"
    /\ mainJson # Absent
    /\ backupJson # Absent
    /\ backupJson' = Absent
    /\ pc' = "backup_removed"
    /\ UNCHANGED <<inputTree, cssMtime, mainJson, newJson, runNo, editsLeft,
                   output_data, vfs, chat_data, written, prevMain, prevBackup, lastRun,
                   prevRun,
                   open_streams>>

\* os.remove(main_json) in place of the rename
remove_main == [main |-> Absent, backup |-> backupJson]

\* a rename that leaves an existing BACKUP as it is
rename_main_unless_backup ==
    [main |-> Absent, backup |-> IF prevBackup # Absent THEN prevBackup ELSE mainJson]

\* os.rename(main_json, backup_json)
rename_main_to_backup == [main |-> Absent, backup |-> mainJson]

\* line 37
RenameMainToBackup ==
    /\ \/ pc = "new_written" /\ mainJson # Absent /\ backupJson = Absent
       \/ pc = "backup_removed"
    /\ mainJson' = rename_main_to_backup.main
    /\ backupJson' = rename_main_to_backup.backup
    /\ pc' = "main_moved"
    /\ UNCHANGED <<inputTree, cssMtime, newJson, runNo, editsLeft,
                   output_data, vfs, chat_data, written, prevMain, prevBackup, lastRun,
                   prevRun,
                   open_streams>>

\* line 40
RenameNewToMain ==
    /\ \/ pc = "new_written" /\ mainJson = Absent
       \/ pc = "main_moved"
    /\ mainJson' = newJson
    /\ newJson' = Absent
    /\ pc' = "idle"
    /\ lastRun' = "done"
    /\ prevRun' = [tree |-> inputTree, css |-> cssMtime, json |-> newJson]
    /\ UNCHANGED <<inputTree, cssMtime, backupJson, runNo, editsLeft,
                   output_data, vfs, chat_data, written, prevMain, prevBackup,
                   open_streams>>

\* The process dies while chat-data-NEW.json is being written.
CrashWritingNew ==
    /\ pc = "emitted"
    /\ newJson' = Partial
    /\ prevMain' = mainJson
    /\ prevBackup' = backupJson
    /\ pc' = "idle"
    /\ lastRun' = "crashed"
    /\ UNCHANGED <<inputTree, cssMtime, mainJson, backupJson, runNo, editsLeft,
                   output_data, vfs, chat_data, written, prevRun,
                   open_streams>>

\* The process dies between two file-system steps of update_metadata.
Crash ==
    /\ pc \in {"new_written", "backup_removed", "main_moved"}
    /\ pc' = "idle"
    /\ lastRun' = "crashed"
    /\ UNCHANGED <<inputTree, cssMtime, mainJson, newJson, backupJson, runNo, editsLeft,
                   output_data, vfs, chat_data, written, prevMain, prevBackup, prevRun,
                   open_streams>>

----------------------------------------------------------------------------

\* Runs that complete, with the input changing between them.
Next ==
    \/ EditInput
    \/ TouchCss
    \/ StartRun
    \/ Scan
    \/ MergeHistory
    \/ ProcessMessages
    \/ GenerateOutputFiles
    \/ ProcessMediaDependencies
    \/ CheckOutputDependencies
    \/ GenerateHtml
    \/ WriteNewJson
    \/ RemoveBackup
    \/ RenameMainToBackup
    \/ RenameNewToMain

Spec == Init /\ [][Next]_vars

\* Runs on a fixed input that may die inside update_metadata.
NextCrash ==
    \/ StartRun
    \/ Scan
    \/ MergeHistory
    \/ ProcessMessages
    \/ GenerateOutputFiles
    \/ ProcessMediaDependencies
    \/ CheckOutputDependencies
    \/ GenerateHtml
    \/ WriteNewJson
    \/ RemoveBackup
    \/ RenameMainToBackup
    \/ RenameNewToMain
    \/ CrashWritingNew
    \/ Crash

SpecCrash == Init /\ [][NextCrash]_vars

\* chat-data.json is damaged between two runs.
CorruptMain ==
    /\ pc = "idle"
    /\ runNo < MaxRuns
    /\ mainJson \notin {Absent, Corrupt}
    /\ mainJson' = Corrupt
    /\ UNCHANGED <<inputTree, cssMtime, newJson, backupJson, pc, runNo, editsLeft,
                   output_data, vfs, chat_data, written, prevMain, prevBackup, lastRun,
                   prevRun,
                   open_streams>>

\* Runs that complete, with chat-data.json damaged between them.
NextCorrupt ==
    \/ CorruptMain
    \/ StartRun
    \/ Scan
    \/ MergeHistory
    \/ ProcessMessages
    \/ GenerateOutputFiles
    \/ ProcessMediaDependencies
    \/ CheckOutputDependencies
    \/ GenerateHtml
    \/ WriteNewJson
    \/ RemoveBackup
    \/ RenameMainToBackup
    \/ RenameNewToMain

SpecCorrupt == Init /\ [][NextCorrupt]_vars

----------------------------------------------------------------------------
(* A VFS under arbitrary calls of its three mutators *)

\* The handles the calls are made with: two sizes of one path, a second path
\* with the same basename, each live or historical, a transcript and a ZIP
\* member.
Handles ==
    {ChatFile(p[1], p[2], 1, None, e) :
        p \in {<< <<"a", "img">>, 1 >>, << <<"a", "img">>, 2 >>, << <<"b", "img">>, 1 >>},
        e \in BOOLEAN}
    \cup {ChatFile(<<"a", "_chat.txt">>, 1, 1, None, TRUE),
          ChatFile(<<"a", "img">>, 1, 1, ChatFileID_create(1, 2, <<".", "x.zip">>), TRUE)}

InitVFS ==
    /\ inputTree = [p \in PhysPaths |-> Absent]
    /\ NoOutputYet

VfsAddFile ==
    /\ \E h \in Handles : vfs' = add_file(vfs, h)
    /\ UNCHANGED <<inputTree, cssMtime, mainJson, newJson, backupJson, pc, runNo,
                   editsLeft, output_data, chat_data, written, prevMain, prevBackup,
                   lastRun, prevRun,
                   open_streams>>

VfsRemoveFile ==
    /\ \E h \in Handles : vfs' = remove_file(vfs, h)
    /\ UNCHANGED <<inputTree, cssMtime, mainJson, newJson, backupJson, pc, runNo,
                   editsLeft, output_data, chat_data, written, prevMain, prevBackup,
                   lastRun, prevRun,
                   open_streams>>

VfsMarkNonexistent ==
    /\ \E h \in Handles : vfs' = mark_nonexistent(vfs, id(h))
    /\ UNCHANGED <<inputTree, cssMtime, mainJson, newJson, backupJson, pc, runNo,
                   editsLeft, output_data, chat_data, written, prevMain, prevBackup,
                   lastRun, prevRun,
                   open_streams>>

NextVFS ==
    \/ VfsAddFile
    \/ VfsRemoveFile
    \/ VfsMarkNonexistent

SpecVFS == InitVFS /\ [][NextVFS]_vars

----------------------------------------------------------------------------
(* One scan of input trees with chat archives, their copies and other ZIPs *)

ChatArchive ==
    ZipFile(1, <<ZipMember(<<".", "_chat.txt">>, 1, T5),
                 ZipMember(<<"m", "img">>, 1, <<>>)>>)

OtherZip == ZipFile(1, <<ZipMember(<<"m", "img">>, 1, <<>>)>>)

ScanCandidates(path) ==
    CASE path = <<".", "x.zip">> -> {ChatArchive, OtherZip}
      [] path = <<".", "y.zip">> ->
            {ChatArchive, OtherZip, ZipFile(1, <<ZipMember(<<".", "_chat.txt">>, 2, T2)>>)}
      [] OTHER -> Candidates(path)

RECURSIVE ScanTreesOver(_)
ScanTreesOver(paths) ==
    IF paths = <<>> THEN {EmptyDict}
    ELSE {Put(t[1], Head(paths), t[2]) :
            t \in ScanTreesOver(Tail(paths)) \X (ScanCandidates(Head(paths)) \cup {Absent})}

InitScan ==
    /\ inputTree \in ScanTreesOver(WalkOrder)
    /\ NoOutputYet

NextScan ==
    \/ StartRun
    \/ Scan

SpecScan == InitScan /\ [][NextScan]_vars

----------------------------------------------------------------------------
(* A first run on input trees with transcripts that do not start with a message line *)

\* a transcript whose first line does not match the message format
T0 == <<LineC, LineR>>

RejectCandidates(path) ==
    CASE path = <<".", "x.zip">> -> Candidates(path)
      [] path = <<".", "y.zip">> ->
            {ZipFile(1, <<ZipMember(<<".", "_chat.txt">>, 2, T0)>>)}
      [] path = <<"a", "_chat.txt">> -> {PlainFile(1, T1), PlainFile(1, T0)}
      [] path = <<"b", "_chat.txt">> -> {PlainFile(2, T3), PlainFile(2, T0)}
      [] OTHER -> Candidates(path)

RECURSIVE RejectTreesOver(_)
RejectTreesOver(paths) ==
    IF paths = <<>> THEN {EmptyDict}
    ELSE {Put(t[1], Head(paths), t[2]) :
            t \in RejectTreesOver(Tail(paths))
                     \X (RejectCandidates(Head(paths)) \cup {Absent})}

InitReject ==
    /\ inputTree \in RejectTreesOver(WalkOrder)
    /\ NoOutputYet

NextReject ==
    \/ StartRun
    \/ Scan
    \/ MergeHistory
    \/ ProcessMessages

SpecReject == InitReject /\ [][NextReject]_vars

----------------------------------------------------------------------------
(* Scans of input trees with malformed ZIPs and unreadable files *)

ErrorCandidates(path) ==
    CASE path = <<".", "x.zip">> -> {ChatArchive, Malformed, Unreadable}
      [] path = <<".", "y.zip">> -> Candidates(path)
      [] path = <<"a", "_chat.txt">> -> {PlainFile(1, T1), Unreadable}
      [] path = <<"b", "_chat.txt">> -> {PlainFile(2, T3)}
      [] path = <<"b", "img">> -> {PlainFile(1, <<>>), Unreadable}

RECURSIVE ErrorTreesOver(_)
ErrorTreesOver(paths) ==
    IF paths = <<>> THEN {EmptyDict}
    ELSE {Put(t[1], Head(paths), t[2]) :
            t \in ErrorTreesOver(Tail(paths))
                     \X (ErrorCandidates(Head(paths)) \cup {Absent})}

InitScanErrors ==
    /\ inputTree \in ErrorTreesOver(WalkOrder)
    /\ NoOutputYet

\* main.py lines 104-106: an exception of the scan ends the run
ScanOrRaise ==
    /\ pc = "loaded"
    /\ IF scan_walk_raising(EmptyVFS, inputTree, WalkOrder) = Raised
       THEN /\ pc' = "idle"
            /\ lastRun' = "failed"
            /\ vfs' = vfs
       ELSE /\ pc' = "scanned"
            /\ lastRun' = lastRun
            /\ vfs' = scan_walk_raising(EmptyVFS, inputTree, WalkOrder)
    /\ UNCHANGED <<inputTree, cssMtime, mainJson, newJson, backupJson, runNo, editsLeft,
                   output_data, chat_data, written, prevMain, prevBackup, prevRun,
                   open_streams>>

NextScanErrors ==
    \/ StartRun
    \/ ScanOrRaise

SpecScanErrors == InitScanErrors /\ [][NextScanErrors]_vars

----------------------------------------------------------------------------
(* Runs in which a stage before update_metadata may raise *)

BeforeUpdate ==
    {"loaded", "scanned", "merged", "processed", "planned", "located", "checked",
     "emitted"}

\* a failure that may also hit between the steps of update_metadata
FailsAnywhere ==
    /\ pc \in BeforeUpdate \cup {"new_written", "backup_removed", "main_moved"}
    /\ pc' = "idle"
    /\ lastRun' = "failed"
    /\ UNCHANGED <<inputTree, cssMtime, mainJson, newJson, backupJson, runNo, editsLeft,
                   output_data, vfs, chat_data, written, prevMain, prevBackup, prevRun,
                   open_streams>>

\* main.py lines 100-133: an exception of a stage leaves main() and ends the
\* run; no stage has a handler that touches the state files.
StageFails ==
    /\ pc \in BeforeUpdate
    /\ pc' = "idle"
    /\ lastRun' = "failed"
    /\ UNCHANGED <<inputTree, cssMtime, mainJson, newJson, backupJson, runNo, editsLeft,
                   output_data, vfs, chat_data, written, prevMain, prevBackup, prevRun,
                   open_streams>>

NextFail ==
    \/ StartRun
    \/ Scan
    \/ MergeHistory
    \/ ProcessMessages
    \/ GenerateOutputFiles
    \/ ProcessMediaDependencies
    \/ CheckOutputDependencies
    \/ GenerateHtml
    \/ WriteNewJson
    \/ RemoveBackup
    \/ RenameMainToBackup
    \/ RenameNewToMain
    \/ StageFails

SpecFail == Init /\ [][NextFail]_vars

----------------------------------------------------------------------------
(* parser.py on transcripts whose content is kept piece by piece *)

\* The content of a line is a sequence of pieces: plain text, or a span the
\* media regex matches, with the file name it captures.
Text(t) == [text |-> t]

MediaTag(name) == [media |-> name]

PieceMsgLine(timestamp, year, sender, content) ==
    [kind |-> "msg", timestamp |-> timestamp, year |-> year, sender |-> sender,
     content |-> content]

PieceContLine(content) == [kind |-> "cont", content |-> content]

PieceLines ==
    {PieceMsgLine("2022", 2022, "R", <<Text("hi")>>),
     PieceMsgLine("2023", 2023, "S", <<MediaTag("img"), Text("cap")>>),
     PieceContLine(<<Text("more")>>),
     PieceContLine(<<Text("see"), MediaTag("img")>>)}

MaxLines == 3

PieceTranscripts == UNION {[1..n -> PieceLines] : n \in 1..MaxLines}

\* lines 117-121: media_regex.search(content), None without a match
media_match(content) ==
    LET hits == {i \in 1..Len(content) : "media" \in DOMAIN content[i]}
    IN IF hits = {} THEN None
       ELSE content[CHOOSE i \in hits : \A j \in hits : i <= j]

\* lines 107-129: content.replace(match.group(0), "") takes every occurrence
\* of the matched span out of the content
message_of_pieces(raw_line, content, input_file) ==
    LET m == media_match(content)
    IN Message(raw_line.timestamp, raw_line.sender,
               IF m = None THEN content ELSE SelectSeq(content, LAMBDA piece : piece # m),
               raw_line.year, id(input_file),
               IF m = None THEN NoMedia ELSE m.media)

\* lines 146-169: the loop over lines[1:] and the final message
RECURSIVE parse_pieces_rest(_, _, _, _, _)
parse_pieces_rest(lines, current_raw_line, content_lines, messages, input_file) ==
    IF lines = <<>>
    THEN Append(messages, message_of_pieces(current_raw_line, content_lines, input_file))
    ELSE IF Head(lines).kind = "msg"
    THEN parse_pieces_rest(Tail(lines), Head(lines), Head(lines).content,
                           Append(messages,
                                  message_of_pieces(current_raw_line, content_lines,
                                                    input_file)),
                           input_file)
    ELSE parse_pieces_rest(Tail(lines), current_raw_line,
                           content_lines \o Head(lines).content, messages, input_file)

\* lines 132-171
parse_piece_lines(lines, input_file) ==
    IF Len(lines) = 0 THEN None
    ELSE IF lines[1].kind # "msg" THEN None
    ELSE [chat_name |-> lines[1].sender,
          messages |-> parse_pieces_rest(Tail(lines), lines[1], lines[1].content, <<>>,
                                         input_file),
          output_files |-> EmptyDict]

TranscriptPath == <<"a", "_chat.txt">>

InitParse ==
    /\ \E lines \in PieceTranscripts :
          inputTree = [p \in PhysPaths |->
                          IF p = TranscriptPath THEN PlainFile(1, lines) ELSE Absent]
    /\ NoOutputYet

\* parse_chat_lines applied to the transcript; its chat, if any, is kept in
\* chat_data
ParseTranscript ==
    /\ pc = "idle"
    /\ LET input_file == ChatFile(TranscriptPath, inputTree[TranscriptPath].size, 1, None, TRUE)
           chat == parse_piece_lines(inputTree[TranscriptPath].lines, input_file)
       IN chat_data' = IF chat = None THEN ChatData
                       ELSE [ChatData EXCEPT !.chats = Put(@, chat.chat_name, chat)]
    /\ pc' = "processed"
    /\ UNCHANGED <<inputTree, cssMtime, mainJson, newJson, backupJson, runNo, editsLeft,
                   output_data, vfs, written, prevMain, prevBackup, lastRun, prevRun,
                   open_streams>>

NextParse == ParseTranscript

SpecParse == InitParse /\ [][NextParse]_vars

----------------------------------------------------------------------------
(* Runs on an output directory that holds a state file of the older format *)

LegacyMessage(content, path) ==
    [timestamp |-> "2022", sender |-> "R", content |-> content, year |-> 2022,
     input_file |-> path, media_name |-> NoMedia]

LegacyJson(messages) ==
    [chats |-> Put(EmptyDict, "R",
                   [chat_name |-> "R", messages |-> messages, output_files |-> EmptyDict]),
     input_files |-> EmptyDict]

LegacyJsons ==
    {LegacyJson(<<LegacyMessage("hi", <<"a", "_chat.txt">>)>>),
     LegacyJson(<<LegacyMessage("old", <<"c", "_chat.txt">>),
                  LegacyMessage("hi", <<"c", "_chat.txt">>)>>)}

\* The output directory comes with chat-data.json of the older format.
InstallLegacyState ==
    /\ pc = "idle"
    /\ runNo = 0
    /\ mainJson = Absent
    /\ mainJson' \in LegacyJsons
    /\ UNCHANGED <<inputTree, cssMtime, newJson, backupJson, pc, runNo, editsLeft,
                   output_data, vfs, chat_data, written, prevMain, prevBackup, lastRun,
                   prevRun,
                   open_streams>>

\* message_processor.py lines 39-41: file_id.value of a message whose
\* input_file_id is None raises AttributeError
process_messages_raises(old_chat_data) ==
    \E n \in DOMAIN old_chat_data.chats :
        \E i \in 1..Len(old_chat_data.chats[n].messages) :
            old_chat_data.chats[n].messages[i].input_file_id = None

\* main.py lines 112-117: the exception ends the run
ProcessMessagesOrRaise ==
    /\ pc = "merged"
    /\ IF process_messages_raises(output_data)
       THEN /\ pc' = "idle"
            /\ lastRun' = "failed"
            /\ chat_data' = chat_data
            /\ open_streams' = open_streams
       ELSE /\ pc' = "processed"
            /\ lastRun' = lastRun
            /\ chat_data' = [process_messages(inputTree, vfs, output_data)
                                EXCEPT !.timestamp = RunTimestamp(runNo)]
            /\ open_streams' = open_streams
                                \cup parse_chat_file_streams(inputTree, vfs, output_data)
    /\ UNCHANGED <<inputTree, cssMtime, mainJson, newJson, backupJson, runNo, editsLeft,
                   output_data, vfs, written, prevMain, prevBackup, prevRun>>

NextLegacy ==
    \/ InstallLegacyState
    \/ StartRun
    \/ Scan
    \/ MergeHistory
    \/ ProcessMessagesOrRaise
    \/ GenerateOutputFiles
    \/ ProcessMediaDependencies
    \/ CheckOutputDependencies
    \/ GenerateHtml
    \/ WriteNewJson
    \/ RemoveBackup
    \/ RenameMainToBackup
    \/ RenameNewToMain

SpecLegacy == Init /\ [][NextLegacy]_vars

----------------------------------------------------------------------------
(* Properties of the pipeline *)

\* the dedup key of the specification: (timestamp, sender, content)
Triple(msg) == <<msg.timestamp, msg.sender, msg.content>>

Triples(msgs) == {Triple(msgs[i]) : i \in 1..Len(msgs)}

\* the messages of process_messages' result are final from "processed" on
Processed == pc \notin {"idle", "loaded", "scanned", "merged"}

\* C1: every message of the previous ChatData is still in the ChatData that
\* process_messages returns, also when its transcript has left the input tree.
C1_OldMessagesKept ==
    pc = "processed" =>
        \A n \in DOMAIN output_data.chats :
            /\ n \in DOMAIN chat_data.chats
            /\ Triples(output_data.chats[n].messages) \subseteq Triples(chat_data.chats[n].messages)

\* every (chat, year) of the run has generate = FALSE
NothingToGenerate ==
    \A n \in DOMAIN chat_data.chats :
        \A y \in DOMAIN chat_data.chats[n].output_files :
            ~chat_data.chats[n].output_files[y].generate

\* this run follows a completed run on the same input and loaded what it wrote
SecondRunOnSameInput ==
    /\ lastRun = "done"
    /\ Untouched
    /\ output_data = from_json(prevRun.json)

\* C2: on a second run over an unchanged input tree, after
\* check_output_dependencies generate is false for every (chat, year).
C2_SecondRunGeneratesNothing ==
    (pc = "checked" /\ SecondRunOnSameInput) => NothingToGenerate

\* update_metadata has been entered in the current run, or the run has ended
InUpdate ==
    \/ pc \in {"new_written", "backup_removed", "main_moved"}
    \/ pc = "idle" /\ lastRun # "none"

\* C3: at every point of update_metadata, a crash between two of its steps
\* included, the generation that was on disk when it began is complete in
\* chat-data.json or in chat-data-BACKUP.json, or the new generation is complete
\* in chat-data.json; neither file ever holds partial data.
C3_GenerationSurvives ==
    InUpdate =>
        /\ mainJson # Partial
        /\ backupJson # Partial
        /\ prevMain # Absent =>
              \/ mainJson = prevMain
              \/ backupJson = prevMain
              \/ mainJson = to_json(chat_data)
        /\ (prevMain = Absent /\ prevBackup # Absent) =>
              \/ backupJson = prevBackup
              \/ mainJson = to_json(chat_data)

\* the process died after main was renamed away: the generation is in BACKUP only
C3_Witness ==
    /\ pc = "idle"
    /\ lastRun = "crashed"
    /\ prevMain # Absent
    /\ mainJson = Absent
    /\ backupJson = prevMain
    /\ newJson = to_json(chat_data)

\* C4: no chat returned by process_messages holds two messages with equal
\* (timestamp, sender, content).
C4_NoDuplicateTriples ==
    Processed =>
        \A n \in DOMAIN chat_data.chats :
            \A i, j \in 1..Len(chat_data.chats[n].messages) :
                i # j => Triple(chat_data.chats[n].messages[i])
                            # Triple(chat_data.chats[n].messages[j])

\* the (mtime, file, chat) entries process_messages works from, per chat name
ChatFilesByName ==
    parse_new_files(inputTree, vfs, history_files(vfs, output_data), vfs.path_order)

\* two sources of one chat carry the same triple, and the chat came out of
\* process_messages
C4_Witness ==
    /\ pc = "processed"
    /\ \E n \in DOMAIN ChatFilesByName :
        \E i, j \in 1..Len(ChatFilesByName[n]) :
            /\ i # j
            /\ Triples(ChatFilesByName[n][i].chat.messages)
                  \cap Triples(ChatFilesByName[n][j].chat.messages) # {}
            /\ Len(chat_data.chats[n].messages) >= 2

\* C5: a message is discarded only when a message with an equal triple is
\* retained for the same chat, whatever characters the fields contain.
C5_OnlyEqualTriplesCollapse ==
    pc = "processed" =>
        \A n \in DOMAIN ChatFilesByName :
            \A i \in 1..Len(ChatFilesByName[n]) :
                Triples(ChatFilesByName[n][i].chat.messages)
                    \subseteq Triples(chat_data.chats[n].messages)

\* every handle the scan added, also those a later add_file displaced
ScannedHandles ==
    UNION {Range(scan_file(p, inputTree[p])) : p \in {q \in PhysPaths : inputTree[q] # Absent}}

HistorySeedIds ==
    UNION {{id(t.file) : t \in Range(history_files(vfs, output_data)[n])} :
                n \in DOMAIN history_files(vfs, output_data)}

\* C6: every scanned handle with basename _chat.txt and exists = true whose id
\* is not that of a history-seeded entry is parsed, and each of its messages is
\* in the resulting chat by its triple.
C6_EveryTranscriptParsed ==
    pc = "processed" =>
        \A h \in ScannedHandles :
            (is_chat_file(h) /\ id(h) \notin HistorySeedIds) =>
                LET chat == parse_chat_file(inputTree, vfs, h)
                IN chat # None =>
                      /\ chat.chat_name \in DOMAIN chat_data.chats
                      /\ Triples(chat.messages)
                            \subseteq Triples(chat_data.chats[chat.chat_name].messages)

HasOldOutputFile(n, y) ==
    /\ n \in DOMAIN output_data.chats
    /\ y \in DOMAIN output_data.chats[n].output_files

DiffersFromOld(n, y) ==
    LET new == chat_data.chats[n].output_files[y]
        old == output_data.chats[n].output_files[y]
    IN \/ new.css_dependency # old.css_dependency
       \/ new.media_dependencies # old.media_dependencies
       \/ new.chat_dependencies # old.chat_dependencies

\* C7: after check_output_dependencies, generate is true for a (chat, year)
\* exactly when the old data has no OutputFile for it or its css_dependency,
\* media_dependencies or chat_dependencies differ from the old OutputFile.
C7_GenerateIffChanged ==
    pc = "checked" =>
        \A n \in DOMAIN chat_data.chats :
            \A y \in DOMAIN chat_data.chats[n].output_files :
                chat_data.chats[n].output_files[y].generate
                    <=> (~HasOldOutputFile(n, y) \/ DiffersFromOld(n, y))

\* one year of a chat is regenerated because a dependency changed, and another
\* year of the same run is left alone
C7_Witness ==
    /\ pc = "checked"
    /\ \E n \in DOMAIN chat_data.chats :
        \E y \in DOMAIN chat_data.chats[n].output_files :
            /\ HasOldOutputFile(n, y)
            /\ DiffersFromOld(n, y)
            /\ chat_data.chats[n].output_files[y].generate
    /\ \E n \in DOMAIN chat_data.chats :
        \E y \in DOMAIN chat_data.chats[n].output_files :
            /\ HasOldOutputFile(n, y)
            /\ ~chat_data.chats[n].output_files[y].generate

GeneratePairs ==
    {p \in (DOMAIN chat_data.chats) \X {2022, 2023} :
        /\ p[2] \in DOMAIN chat_data.chats[p[1]].output_files
        /\ chat_data.chats[p[1]].output_files[p[2]].generate}

\* C8: generate_html writes <chat>/<year>.html exactly for the pairs whose
\* generate flag is true, and the top-level index and every chat index always.
C8_YearPagesFollowFlags ==
    pc = "emitted" =>
        /\ \A n \in DOMAIN chat_data.chats :
              \A y \in DOMAIN chat_data.chats[n].output_files :
                 YearPage(n, y) \in written <=> <<n, y>> \in GeneratePairs
        /\ \A n \in DOMAIN chat_data.chats : ChatIndex(n) \in written
        /\ MainIndex \in written
        /\ \A w \in written :
              \/ w = MainIndex
              \/ \E n \in DOMAIN chat_data.chats : w = ChatIndex(n)
              \/ \E p \in GeneratePairs : w = YearPage(p[1], p[2])

\* a run that skips a year page and still writes that chat's index
C8_Witness ==
    /\ pc = "emitted"
    /\ \E n \in DOMAIN chat_data.chats :
        \E y \in DOMAIN chat_data.chats[n].output_files :
            /\ ~chat_data.chats[n].output_files[y].generate
            /\ YearPage(n, y) \notin written
            /\ ChatIndex(n) \in written

\* the .html files under <output_root>/<ChatName>/
UnderChatDirectory(w) == w[1] \in {"year", "chat_index"}

\* C9: a second run against the same unchanged input and the same output root
\* writes no .html file under a per-chat directory.
C9_SecondRunWritesNoChatHtml ==
    (pc = "emitted" /\ SecondRunOnSameInput) =>
        \A w \in written : ~UnderChatDirectory(w)

\* C10: after a successful update_metadata that found a chat-data.json, BACKUP
\* is that chat-data.json; an update that found none leaves BACKUP as it was,
\* so the first update on an empty output root creates no BACKUP.
C10_BackupIsPreviousMain ==
    (pc = "idle" /\ lastRun = "done") =>
        /\ prevMain # Absent => backupJson = prevMain
        /\ prevMain = Absent => backupJson = prevBackup
        /\ (prevMain = Absent /\ prevBackup = Absent) => backupJson = Absent

\* an update replaced an older BACKUP by the generation that preceded it
C10_Witness ==
    /\ pc = "idle"
    /\ lastRun = "done"
    /\ prevMain # Absent
    /\ prevBackup # Absent
    /\ prevBackup # prevMain
    /\ backupJson = prevMain
    /\ mainJson # prevMain

\* C11: a run that finds a chat-data.json it cannot parse starts from the empty
\* state and completes, and the BACKUP that was there before the run has the
\* same content after it.
C11_BackupSurvivesCorruptMain ==
    (pc = "idle" /\ lastRun = "done" /\ prevMain = Corrupt /\ mainJson # Corrupt) =>
        /\ output_data = ChatData
        /\ mainJson = to_json(chat_data)
        /\ prevBackup # Absent => backupJson = prevBackup

\* the FileIDs the messages and OutputFiles of a ChatData refer to
ReferencedIds(data) ==
    UNION {
        {data.chats[n].messages[i].input_file_id : i \in 1..Len(data.chats[n].messages)}
        \cup UNION {
            LET f == data.chats[n].output_files[y]
            IN f.chat_dependencies
               \cup ({f.media_dependencies[k] : k \in DOMAIN f.media_dependencies} \ {None})
               \cup ({f.css_dependency} \ {None})
            : y \in DOMAIN data.chats[n].output_files}
        : n \in DOMAIN data.chats}

\* C12: in the ChatData a run serializes, every FileID referenced by a message,
\* by chat_dependencies, by a non-null media dependency or by css_dependency is
\* a key of input_files.
C12_ReferencesResolve ==
    pc = "emitted" => ReferencedIds(chat_data) \subseteq DOMAIN chat_data.input_files

\* the OutputFile records of the run exist and their chat_dependencies are final
Planned == pc \in {"planned", "located", "checked", "emitted"}

YearsOf(chat) == {chat.messages[i].year : i \in 1..Len(chat.messages)}

FilesOfYear(chat, y) ==
    {chat.messages[i].input_file_id :
        i \in {j \in 1..Len(chat.messages) : chat.messages[j].year = y}}

\* C13: after generate_output_files the keys of a chat's output_files are the
\* years of its messages, and chat_dependencies of a year is the set of
\* input_file_id values of the messages of that year.
C13_OutputFilesFollowMessages ==
    Planned =>
        \A n \in DOMAIN chat_data.chats :
            /\ DOMAIN chat_data.chats[n].output_files = YearsOf(chat_data.chats[n])
            /\ \A y \in YearsOf(chat_data.chats[n]) :
                  chat_data.chats[n].output_files[y].chat_dependencies
                      = FilesOfYear(chat_data.chats[n], y)

\* a chat with two years that depend on different transcripts
C13_Witness ==
    /\ pc = "planned"
    /\ \E n \in DOMAIN chat_data.chats :
        /\ {2022, 2023} \subseteq DOMAIN chat_data.chats[n].output_files
        /\ chat_data.chats[n].output_files[2022].chat_dependencies
              # chat_data.chats[n].output_files[2023].chat_dependencies
        /\ chat_data.chats[n].output_files[2023].chat_dependencies # {}

\* C14: from_json(to_json(d)) equals d in every field, the run timestamp
\* included, for the ChatData a run serializes.
C14_RoundTrip ==
    pc = "emitted" => from_json(to_json(chat_data)) = chat_data

\* the handles each index of the VFS holds
HandlesById == {vfs.files_by_id[k] : k \in DOMAIN vfs.files_by_id}

HandlesByPath == {vfs.files_by_path[k] : k \in DOMAIN vfs.files_by_path}

HandlesByName == UNION {vfs.files_by_name[k] : k \in DOMAIN vfs.files_by_name}

\* C15: after any sequence of add_file, remove_file and mark_nonexistent the
\* three indexes hold the same handles: a handle is the files_by_id entry of its
\* id exactly when it is the files_by_path entry of its path and a member of
\* the files_by_name set of its basename.
C15_IndexesAgree ==
    /\ HandlesById = HandlesByPath
    /\ HandlesById = HandlesByName
    /\ \A h \in HandlesById :
          /\ get_by_id(vfs, id(h)) = h
          /\ get_by_path(vfs, h.path) = h
          /\ h \in find_by_name(vfs, Basename(h.path))

\* the ids of the handles the scan of the current input tree yields
ScannedIds == {id(h) : h \in ScannedHandles}

\* C16: after the scan and the history merge every key of the previous
\* input_files resolves through get_by_id; an id the current scan did not find
\* has exists = false, and every handle the scan found has exists = true.
C16_HistoryResolves ==
    pc = "merged" =>
        /\ \A i \in DOMAIN output_data.input_files :
              /\ get_by_id(vfs, i) # None
              /\ i \notin ScannedIds => ~exists(vfs, i)
        /\ \A h \in ScannedHandles :
              /\ get_by_id(vfs, id(h)) # None
              /\ exists(vfs, id(h))

C16_Witness ==
    /\ pc = "merged"
    /\ \E i, j \in DOMAIN output_data.input_files :
          /\ i \notin ScannedIds
          /\ ~exists(vfs, i)
          /\ j \in ScannedIds
          /\ exists(vfs, j)

\* the modification time of the transcript a message was parsed from, which
\* its input_file_id is made of
TranscriptMtime(msg) == msg.input_file_id.mtime

\* C17: in every chat process_messages returns the retained messages are in
\* ascending order of the mtime of the transcript that contributed them.
C17_MessagesFollowTranscriptMtime ==
    pc = "processed" =>
        \A n \in DOMAIN chat_data.chats :
            \A i, j \in 1..Len(chat_data.chats[n].messages) :
                i < j => TranscriptMtime(chat_data.chats[n].messages[i])
                            <= TranscriptMtime(chat_data.chats[n].messages[j])

\* the ZIP files of the current input tree
ZipsInTree == {p \in PhysPaths : inputTree[p] # Absent /\ EndsWithZip(Basename(p))}

ZipId(p) ==
    ChatFileID_create(inputTree[p].modification_timestamp, inputTree[p].size, p)

FirstChoices(v, name) ==
    IF find_by_name(v, name) = {} THEN {None} ELSE find_by_name(v, name)

MediaOfYear(chat, y) ==
    {chat.messages[i].media_name :
        i \in {j \in 1..Len(chat.messages) :
                  chat.messages[j].year = y /\ chat.messages[j].media_name # NoMedia}}

Located == pc \in {"located", "checked", "emitted"}

\* C20: after process_media_dependencies, for every message with a media_name
\* and year y, output_files[y] exists and its media_dependencies has the key
\* media_name, one entry per distinct media_name of the year, each mapped to
\* the FileID of a handle of that basename or to null.
C20_MediaDependenciesRecorded ==
    Located =>
        \A n \in DOMAIN chat_data.chats :
            \A y \in YearsOf(chat_data.chats[n]) :
                /\ y \in DOMAIN chat_data.chats[n].output_files
                /\ DOMAIN chat_data.chats[n].output_files[y].media_dependencies
                      = MediaOfYear(chat_data.chats[n], y)
                /\ \A m \in MediaOfYear(chat_data.chats[n], y) :
                      LET dep == chat_data.chats[n].output_files[y].media_dependencies[m]
                      IN dep # None => /\ get_by_id(vfs, dep) # None
                                       /\ Basename(get_by_id(vfs, dep).path) = m

\* the scanned transcripts parse_chat_lines rejects for their first line
Rejected(h) ==
    /\ is_chat_file(h)
    /\ open_file(inputTree, vfs, h) # None
    /\ Len(open_file(inputTree, vfs, h).lines) > 0
    /\ parse_chat_line(open_file(inputTree, vfs, h).lines[1]) = None

\* C21: a transcript whose first line is not a message line contributes no
\* message and no chat, and every other scanned transcript of the run is
\* still parsed and merged: its chat exists and holds each of its messages.
C21_RejectedTranscriptAlone ==
    (pc = "processed" /\ \E h \in ScannedHandles : Rejected(h)) =>
        /\ \A h \in ScannedHandles :
              Rejected(h) =>
                 \A n \in DOMAIN chat_data.chats :
                    \A i \in 1..Len(chat_data.chats[n].messages) :
                        chat_data.chats[n].messages[i].input_file_id # id(h)
        /\ \A h \in ScannedHandles :
              (is_chat_file(h) /\ ~Rejected(h)) =>
                 LET chat == parse_chat_file(inputTree, vfs, h)
                 IN /\ chat # None
                    /\ chat.chat_name \in DOMAIN chat_data.chats
                    /\ Triples(chat.messages)
                          \subseteq Triples(chat_data.chats[chat.chat_name].messages)

\* every handle some index of the VFS holds
HandlesInVFS == HandlesById \cup HandlesByPath \cup HandlesByName

\* the string ChatFile.id hashes for a handle
IdKey(h) == ChatFileID_key(h.modification_timestamp, h.size, h.path)

SameMetadata(h1, h2) ==
    /\ h1.modification_timestamp = h2.modification_timestamp
    /\ h1.size = h2.size
    /\ h1.path = h2.path

ReadablePaths ==
    {p \in PhysPaths : inputTree[p] \notin {Absent, Malformed, Unreadable}}

\* C23: a malformed or unreadable ZIP, or a file whose size or mtime cannot be
\* read, is skipped: the scan does not abort and every other file of the tree
\* is added to the VFS.
C23_ScanSkipsBadFiles ==
    /\ lastRun # "failed"
    /\ pc = "scanned" =>
          \A p \in ReadablePaths :
              \A h \in Range(scan_file(p, inputTree[p])) : get_by_id(vfs, id(h)) # None

\* what the last completed update_metadata left in chat-data.json and in
\* chat-data-BACKUP.json
LastMain == IF prevRun = None THEN Absent ELSE prevRun.json

LastBackup == IF prevMain # Absent THEN prevMain ELSE prevBackup

\* C24: until update_metadata begins, that is until generate_html has
\* returned, and after a run that failed in a stage before update_metadata,
\* chat-data.json and chat-data-BACKUP.json are as they were when the run
\* started.
C24_StateFilesUntouchedBeforeUpdate ==
    (pc \in BeforeUpdate \/ (pc = "idle" /\ lastRun = "failed")) =>
        /\ mainJson = LastMain
        /\ backupJson = LastBackup

C24_Witness ==
    /\ pc = "idle"
    /\ lastRun = "failed"
    /\ written # {}
    /\ mainJson # Absent
    /\ backupJson # Absent
    /\ mainJson # to_json(chat_data)

\* the VFS as the scanner and the history merge of this run populated it
PopulatedVFS == merge_chat_files_into_vfs(output_data, scan_directory_to_vfs(inputTree))

\* C25: from the history merge to the return of generate_html the VFS holds
\* exactly the handles the scan and the merge gave it.
C25_VfsReadOnlyAfterMerge ==
    pc \in {"merged", "processed", "planned", "located", "checked", "emitted"} =>
        vfs = PopulatedVFS

\* the lines of the parsed transcript and the places of its message lines
ParsedLines == inputTree[TranscriptPath].lines

MessageLineAt == {i \in 1..Len(ParsedLines) : ParsedLines[i].kind = "msg"}

\* the place of the k-th message line
RECURSIVE NthMessageLine(_)
NthMessageLine(k) ==
    IF k = 1 THEN CHOOSE i \in MessageLineAt : \A j \in MessageLineAt : i <= j
    ELSE CHOOSE i \in MessageLineAt :
            /\ i > NthMessageLine(k - 1)
            /\ \A j \in MessageLineAt : j > NthMessageLine(k - 1) => i <= j

\* the content of line i followed by the continuation lines after it
RECURSIVE WithContinuations(_, _)
WithContinuations(content, i) ==
    IF i > Len(ParsedLines) \/ ParsedLines[i].kind = "msg" THEN content
    ELSE WithContinuations(content \o ParsedLines[i].content, i + 1)

\* C26: for a transcript whose first line is a message line parse_chat_lines
\* returns one message per message line, in file order, each with the content
\* of its line followed by the continuation lines up to the next message
\* line, verbatim; the chat name is the sender of the first line.
C26_OneMessagePerMessageLine ==
    (pc = "processed" /\ ParsedLines[1].kind = "msg") =>
        /\ DOMAIN chat_data.chats = {ParsedLines[1].sender}
        /\ LET messages == chat_data.chats[ParsedLines[1].sender].messages
           IN /\ Len(messages) = Cardinality(MessageLineAt)
              /\ \A k \in 1..Len(messages) :
                    /\ messages[k].timestamp = ParsedLines[NthMessageLine(k)].timestamp
                    /\ messages[k].sender = ParsedLines[NthMessageLine(k)].sender
                    /\ messages[k].content
                          = WithContinuations(ParsedLines[NthMessageLine(k)].content,
                                              NthMessageLine(k) + 1)

\* C27: loading a state file whose messages name their transcript by a plain
\* path gives each message the id of a handle with that path, size 0, mtime
\* 0 and exists = false, and a run on the loaded state does not fail.
C27_LegacyStateLoads ==
    mainJson \in LegacyJsons =>
        /\ lastRun # "failed"
        /\ pc # "idle" =>
              \A n \in DOMAIN mainJson.chats :
                 \A i \in 1..Len(mainJson.chats[n].messages) :
                    output_data.chats[n].messages[i].input_file_id
                       = id(ChatFile(mainJson.chats[n].messages[i].input_file, 0, 0,
                                     None, FALSE))

\* C28: every stream obtained from VFS.open_file is closed before the operation
\* that opened it finishes, when a transcript is parsed and when media is
\* copied: between the stages of a run and at its end no stream is open.
C28_StreamsClosed == open_streams = {}

\* the handles the scan of this run put into the VFS, by path
ScannedByPath == scan_directory_to_vfs(inputTree).files_by_path

\* C29: after merge_chat_files_into_vfs every handle the scan added is
\* unchanged and reachable: get_by_path of a scanned path returns the scanned
\* exists=true handle, and get_by_id of its id returns it too, also when the
\* previous state holds a historical handle with that path and another id.
C29_MergeKeepsScannedHandles ==
    pc = "merged" =>
        \A p \in DOMAIN ScannedByPath :
            /\ get_by_path(vfs, p) = ScannedByPath[p]
            /\ get_by_id(vfs, id(ScannedByPath[p])) = ScannedByPath[p]

\* a run that started with no chat-data.json beside a chat-data-BACKUP.json, as
\* left when update_metadata stopped between its two renames, up to the point
\* where its own update_metadata is about to rename
RecoveringRun ==
    /\ pc \in BeforeUpdate \cup {"new_written"}
    /\ mainJson = Absent
    /\ backupJson # Absent

\* C30: after a run was interrupted in update_metadata between the rename of
\* chat-data.json to BACKUP and the rename of NEW, the next run finds no
\* chat-data.json and starts from the empty state whatever BACKUP and NEW hold;
\* BACKUP holds the previous generation during that run and is the same file
\* when the run has completed.
C30_InterruptedRenameRecovery ==
    /\ RecoveringRun =>
          /\ output_data = ChatData
          /\ backupJson = prevRun.json
    /\ (pc = "idle" /\ lastRun = "done" /\ prevMain = Absent /\ prevBackup # Absent) =>
          /\ output_data = ChatData
          /\ backupJson = prevBackup
          /\ mainJson = to_json(chat_data)
          /\ newJson = Absent

\* the run after the interrupted one has completed beside a BACKUP with chats
C30_Witness ==
    /\ pc = "idle"
    /\ lastRun = "done"
    /\ prevMain = Absent
    /\ prevBackup # Absent
    /\ DOMAIN prevBackup.chats # {}
    /\ backupJson = prevBackup
    /\ mainJson = to_json(chat_data)

====
